---- MODULE Spec2Model ----
(***************************************************************************)
(* Smart Quote Pro (src/app.py): the pricing engine, the weight engine and *)
(* the cached exchange-rate lookup, as state machines.                     *)
(*                                                                         *)
(* A product description is a sequence of tokens.  The tokens stand for    *)
(* the pieces of text the regular expressions of PricingEngine.calculate   *)
(* look at:                                                                *)
(*   "unit_price" = 单价      "colon" = ':'     "fwcolon" = '：'            *)
(*   "space" = ' '           "newline" = '\n'  "dash" = '-'                *)
(*   "stroke" = 行程          "per" = 每         "add" = 加                  *)
(*   "mm" = 毫米              "yuan" = 元        "text" = any other text    *)
(*   "ball_screw" = 滚珠丝杆   "fisheye" = 鱼眼   "rear_joint" = 后接头      *)
(*   "base_plate" = 底板      "front_joint" = 前接头  "top_plate" = 顶板     *)
(*   "slot_bore" = 开槽和孔径  "hall" = 霍尔      "comm" = 通讯              *)
(*   "pot" = 电位器           "ctrl_1" = 单控    "ctrl_2" = 二同步           *)
(*   "ctrl_3" = 三同步        "ctrl_4" = 四同步                              *)
(* and a run of digits is one number token.                                *)
(***************************************************************************)
EXTENDS Integers, Sequences, FiniteSets, TLC

VARIABLES
    desc, options, stroke_req,      \* arguments of PricingEngine.calculate
    pc, key_idx, total_cny, logs,   \* its position, loop index and locals
    model_str, stroke_mm, qty,      \* arguments of WeightEngine.calculate
    weight,                         \* its result (<<>> before the call)
    now, cache,                     \* clock (seconds), the store of st.cache_data
    lastCall,                       \* the last get_exchange_rate call and its result
    history                         \* per currency, the last run of the function body

vars == <<desc, options, stroke_req, pc, key_idx, total_cny, logs,
          model_str, stroke_mm, qty, weight, now, cache, lastCall, history>>

pricingVars == <<desc, options, stroke_req, pc, key_idx, total_cny, logs>>
weightVars == <<model_str, stroke_mm, qty, weight>>
rateVars == <<now, cache, lastCall, history>>

----------------------------------------------------------------------------
(* Bounds of the checked instances *)

MaxStroke == 6
MaxSelected == 2
MaxModelLen == 5
MaxModelInt == 530
MaxQty == 3
TickStep == 1800
MaxTime == 3600

----------------------------------------------------------------------------
(* Tokens and descriptions *)

Lit(x) == [s |-> x, n |-> 0]
Num(k) == [s |-> "#", n |-> k]

RECURSIVE Lits(_)
Lits(xs) == IF xs = <<>> THEN <<>> ELSE <<Lit(Head(xs))>> \o Lits(Tail(xs))

Min(S) == CHOOSE x \in S : \A y \in S : x <= y
Max(S) == CHOOSE x \in S : \A y \in S : x >= y

----------------------------------------------------------------------------
(* re.search on a token sequence.  A pattern is a sequence of elements:    *)
(*   lit: one token out of a set       num: (\d+), captured               *)
(*   opt: [..]? (greedy)               ws: \s* (greedy)                    *)
(*   gap: .*? (lazy, never crosses a newline)                              *)

PLit(x) == [e |-> "lit", set |-> {x}]
POpt(S) == [e |-> "opt", set |-> S]
PNum == [e |-> "num", set |-> {}]
PWs == [e |-> "ws", set |-> {"space", "newline"}]
PGap == [e |-> "gap", set |-> {}]

RECURSIVE PLits(_)
PLits(xs) == IF xs = <<>> THEN <<>> ELSE <<PLit(Head(xs))>> \o PLits(Tail(xs))

NoMatch == [ok |-> FALSE, caps |-> <<>>]

\* number of consecutive tokens from position di on that satisfy the test
RECURSIVE WsRun(_, _, _)
WsRun(s, di, set) ==
    IF di <= Len(s) /\ s[di].s \in set THEN 1 + WsRun(s, di + 1, set) ELSE 0

RECURSIVE DotRun(_, _)
DotRun(s, di) ==
    IF di <= Len(s) /\ s[di].s # "newline" THEN 1 + DotRun(s, di + 1) ELSE 0

RECURSIVE MatchAt(_, _, _, _)
MatchAt(pat, pi, s, di) ==
    IF pi > Len(pat) THEN [ok |-> TRUE, caps |-> <<>>]
    ELSE LET el == pat[pi] IN
      CASE el.e = "lit" ->
             IF di <= Len(s) /\ s[di].s \in el.set
             THEN MatchAt(pat, pi + 1, s, di + 1) ELSE NoMatch
        [] el.e = "num" ->
             IF di <= Len(s) /\ s[di].s = "#"
             THEN LET r == MatchAt(pat, pi + 1, s, di + 1)
                  IN IF r.ok THEN [ok |-> TRUE, caps |-> <<s[di].n>> \o r.caps]
                     ELSE NoMatch
             ELSE NoMatch
        [] el.e = "opt" ->
             LET skip == MatchAt(pat, pi + 1, s, di) IN
             IF di <= Len(s) /\ s[di].s \in el.set
             THEN LET take == MatchAt(pat, pi + 1, s, di + 1)
                  IN IF take.ok THEN take ELSE skip
             ELSE skip
        [] el.e = "ws" ->
             LET ks == {k \in 0..WsRun(s, di, el.set) :
                          MatchAt(pat, pi + 1, s, di + k).ok}
             IN IF ks = {} THEN NoMatch
                ELSE MatchAt(pat, pi + 1, s, di + Max(ks))
        [] el.e = "gap" ->
             LET ks == {k \in 0..DotRun(s, di) :
                          MatchAt(pat, pi + 1, s, di + k).ok}
             IN IF ks = {} THEN NoMatch
                ELSE MatchAt(pat, pi + 1, s, di + Min(ks))

\* re.search: the match at the leftmost position where one exists
Search(pat, s) ==
    LET starts == {i \in 1..(Len(s) + 1) : MatchAt(pat, 1, s, i).ok}
    IN IF starts = {} THEN NoMatch ELSE MatchAt(pat, 1, s, Min(starts))

----------------------------------------------------------------------------
(* The patterns of PricingEngine.calculate *)

\* r'单价[:：]?\s*(\d+)'
BasePattern == <<PLit("unit_price"), POpt({"colon", "fwcolon"}), PWs, PNum>>

\* r'行程(\d+)-(\d+).*?每加行程(\d+)毫米加(\d+)元'
StrokePattern ==
    <<PLit("stroke"), PNum, PLit("dash"), PNum, PGap>>
    \o PLits(<<"per", "add", "stroke">>) \o <<PNum, PLit("mm"), PLit("add"), PNum, PLit("yuan")>>

AddYuan == <<PGap, PLit("add"), PNum, PLit("yuan")>>
AnyYuan == <<PGap, PNum, PLit("yuan")>>

\* addon_map, in its declaration order: key, pattern, display name
addon_map == <<
    [key |-> "ball_screw",  pat |-> PLits(<<"ball_screw">>) \o AddYuan,
                            name |-> "Ball Screw"],
    [key |-> "fisheye",     pat |-> PLits(<<"fisheye">>) \o AddYuan,
                            name |-> "Fisheye"],
    [key |-> "rear_plate",  pat |-> PLits(<<"rear_joint", "add", "base_plate">>) \o AddYuan,
                            name |-> "Rear Plate"],
    [key |-> "front_plate", pat |-> PLits(<<"front_joint">>) \o <<PGap>>
                                      \o PLits(<<"add", "top_plate">>) \o AddYuan,
                            name |-> "Front Plate"],
    [key |-> "machining",   pat |-> PLits(<<"slot_bore">>) \o AnyYuan,
                            name |-> "Machining"],
    [key |-> "hall",        pat |-> PLits(<<"add", "hall">>) \o AddYuan,
                            name |-> "Hall Sensor"],
    [key |-> "comm",        pat |-> PLits(<<"comm">>) \o AddYuan,
                            name |-> "RS485/CAN"],
    [key |-> "pot",         pat |-> PLits(<<"pot">>) \o AddYuan,
                            name |-> "Potentiometer"],
    [key |-> "ctrl_1",      pat |-> PLits(<<"ctrl_1">>) \o AnyYuan,
                            name |-> "Single Ctrl"],
    [key |-> "ctrl_2",      pat |-> PLits(<<"ctrl_2">>) \o AnyYuan,
                            name |-> "Dual Ctrl"],
    [key |-> "ctrl_3",      pat |-> PLits(<<"ctrl_3">>) \o AnyYuan,
                            name |-> "Triple Ctrl"],
    [key |-> "ctrl_4",      pat |-> PLits(<<"ctrl_4">>) \o AnyYuan,
                            name |-> "Quad Ctrl"] >>

AddonKeys == {addon_map[i].key : i \in 1..Len(addon_map)}
KeyIndex(k) == CHOOSE i \in 1..Len(addon_map) : addon_map[i].key = k

\* the fallback surcharge of the ball screw
BallScrewDefault == 280

----------------------------------------------------------------------------
(* The inputs of PricingEngine.calculate *)

BaseSeg(price) == Lits(<<"unit_price", "colon">>) \o <<Num(price)>>

\* '行程A-B ... 每加行程<inc_len>毫米加<inc_cost>元'
StrokeSeg(a, b, inc_len, inc_cost) ==
    <<Lit("stroke"), Num(a), Lit("dash"), Num(b), Lit("space")>>
    \o Lits(<<"per", "add", "stroke">>)
    \o <<Num(inc_len), Lit("mm"), Lit("add"), Num(inc_cost), Lit("yuan")>>

\* the marker text of an option, as its pattern spells it
Marker(i) ==
    CASE i = 3 -> Lits(<<"rear_joint", "add", "base_plate">>)
      [] i = 4 -> Lits(<<"front_joint", "text", "add", "top_plate">>)
      [] i = 5 -> Lits(<<"slot_bore">>)
      [] i = 6 -> Lits(<<"add", "hall">>)
      [] OTHER -> Lits(<<addon_map[i].key>>)

\* one line of the description pricing option i: '<marker>加<cost>元'
AddonLine(i, cost) ==
    <<Lit("newline")>> \o Marker(i) \o <<Lit("add"), Num(cost), Lit("yuan")>>

\* a line naming option i without a price
BareLine(i) == <<Lit("newline")>> \o Marker(i) \o <<Lit("text")>>

RECURSIVE AddonLines(_, _)
AddonLines(is, cost) ==
    IF is = <<>> THEN <<>>
    ELSE AddonLine(Head(is), cost + Head(is)) \o AddonLines(Tail(is), cost)

Declared == <<1, 2, 3, 4, 5, 6, 7, 8, 9, 10, 11, 12>>
Reversed == <<12, 11, 10, 9, 8, 7, 6, 5, 4, 3, 2, 1>>

Text(toks) == [str |-> TRUE, toks |-> toks]
NotText == [str |-> FALSE, toks |-> <<>>]

Descriptions == {
    \* the scenario of the documentation: 单价:1000 行程100-500 每加行程50毫米加20元
    Text(BaseSeg(1000) \o <<Lit("space")>> \o StrokeSeg(100, 500, 50, 20)),
    \* nothing priced at all
    Text(<<Lit("text")>>),
    \* every component priced, options in declaration order
    Text(BaseSeg(10) \o <<Lit("space")>> \o StrokeSeg(1, 3, 2, 5) \o AddonLines(Declared, 20)),
    \* no base price, options written in the opposite order
    Text(StrokeSeg(1, 3, 3, 5) \o AddonLines(Reversed, 20)),
    \* '单价： 10' with a full-width colon and a blank; a free stroke increment
    Text(<<Lit("unit_price"), Lit("fwcolon"), Lit("space"), Num(10), Lit("newline")>>
         \o StrokeSeg(1, 3, 1, 0)),
    \* an increment length of zero
    Text(BaseSeg(10) \o <<Lit("space")>> \o StrokeSeg(1, 3, 0, 5) \o AddonLine(2, 7)),
    \* options named without a price, each on a line of its own
    Text(BaseSeg(10) \o BareLine(1) \o BareLine(2) \o BareLine(9) \o AddonLine(7, 7)),
    \* a ball screw without a price, followed on its line by the price of another option
    Text(<<Lit("ball_screw"), Lit("text")>> \o Marker(2) \o <<Lit("add"), Num(7), Lit("yuan")>>),
    \* a stroke range without the increment clause
    Text(<<Lit("unit_price"), Num(10), Lit("space"), Lit("stroke"), Num(1), Lit("dash"), Num(3)>>
         \o AddonLine(1, 30) \o AddonLine(12, 0))
}

DescArgs == Descriptions \cup {NotText}

\* the options mapping, a dict in insertion order: a sequence of <<key, flag>>
RECURSIVE AppOptions(_, _)
AppOptions(is, K) ==
    IF is = <<>> THEN <<>>
    ELSE <<[key |-> addon_map[Head(is)].key, flag |-> addon_map[Head(is)].key \in K]>>
         \o AppOptions(Tail(is), K)

RECURSIVE SparseOptions(_, _)
SparseOptions(is, K) ==
    IF is = <<>> THEN <<>>
    ELSE (IF addon_map[Head(is)].key \in K
          THEN <<[key |-> addon_map[Head(is)].key, flag |-> TRUE]>> ELSE <<>>)
         \o SparseOptions(Tail(is), K)

Selections == {K \in SUBSET AddonKeys : Cardinality(K) <= MaxSelected}

\* the dict the sidebar builds (all twelve keys), and a dict of the selected
\* keys alone, inserted in the opposite order
OptionArgs ==
    {AppOptions(Declared, K) : K \in Selections}
    \cup {SparseOptions(Reversed, K) : K \in Selections}

StrokeArgs == ((-1)..MaxStroke) \cup {600}

\* options.get(key): the flag stored under the key, None (falsy) without it
Get(d, k) ==
    LET hits == {i \in 1..Len(d) : d[i].key = k}
    IN IF hits = {} THEN FALSE ELSE d[Max(hits)].flag

\* math.ceil(a / b) for integers a > 0, b > 0
Ceil(a, b) == (a + b - 1) \div b

Entry(name, amount, note) == [name |-> name, amount |-> amount, note |-> note]

----------------------------------------------------------------------------
(* PricingEngine.calculate, one action per statement group *)

\* the engines at rest
IdleWeight == model_str = <<>> /\ stroke_mm = 0 /\ qty = 1 /\ weight = <<>>
IdleRate == now = 0 /\ cache = <<>> /\ lastCall = <<>> /\ history = <<>>

IdlePricing ==
    /\ desc = NotText /\ options = <<>> /\ stroke_req = 0
    /\ pc = "done" /\ key_idx = 0 /\ total_cny = 0 /\ logs = <<>>

InitPricing ==
    /\ desc \in DescArgs
    /\ options \in OptionArgs
    /\ stroke_req \in StrokeArgs
    /\ pc = "start"
    /\ key_idx = 0
    /\ total_cny = 0
    /\ logs = <<>>
    /\ IdleWeight
    /\ IdleRate

\* '=' where the code has '+='
AddOverwrite(total, cost) == cost

\* total_cny += cost
Add(total, cost) == total + cost

\* logs = []; total_cny = 0; if not isinstance(desc, str): return 0, [...]
CheckDesc ==
    /\ pc = "start"
    /\ IF desc.str
       THEN /\ pc' = "base"
            /\ UNCHANGED <<total_cny, logs>>
       ELSE /\ pc' = "done"
            /\ total_cny' = 0
            /\ logs' = <<Entry("Error: No description", 0, "error")>>
    /\ UNCHANGED <<desc, options, stroke_req, key_idx, weightVars, rateVars>>

BasePrice ==
    /\ pc = "base"
    /\ LET base_match == Search(BasePattern, desc.toks) IN
       IF base_match.ok
       THEN /\ total_cny' = Add(total_cny, base_match.caps[1])
            /\ logs' = Append(logs, Entry("Base", base_match.caps[1], ""))
       ELSE UNCHANGED <<total_cny, logs>>
    /\ pc' = "stroke"
    /\ UNCHANGED <<desc, options, stroke_req, key_idx, weightVars, rateVars>>

\* a floor where the code takes the ceiling
StrokeCostFloor(base_end, inc_len, inc_cost, req) == ((req - base_end) \div inc_len) * inc_cost

\* steps = math.ceil((stroke_req - base_end) / inc_len); cost = steps * inc_cost
StrokeCost(base_end, inc_len, inc_cost, req) == Ceil(req - base_end, inc_len) * inc_cost

StrokeIncrement ==
    /\ pc = "stroke"
    /\ LET stroke_match == Search(StrokePattern, desc.toks)
           base_end == stroke_match.caps[2]
           inc_len == stroke_match.caps[3]
           inc_cost == stroke_match.caps[4]
       IN
       IF stroke_match.ok /\ stroke_req > base_end
       THEN IF inc_len = 0
            THEN \* ZeroDivisionError leaves calculate
                 /\ pc' = "raised"
                 /\ UNCHANGED <<total_cny, logs, key_idx>>
            ELSE LET cost == StrokeCost(base_end, inc_len, inc_cost, stroke_req) IN
                 /\ total_cny' = Add(total_cny, cost)
                 /\ logs' = Append(logs, Entry("Stroke", cost, ""))
                 /\ pc' = "addons"
                 /\ key_idx' = 1
       ELSE /\ pc' = "addons"
            /\ key_idx' = 1
            /\ UNCHANGED <<total_cny, logs>>
    /\ UNCHANGED <<desc, options, stroke_req, weightVars, rateVars>>

\* a loop over the caller's mapping instead of addon_map
LoopOrderOfOptions(opts) == [i \in 1..Len(opts) |-> addon_map[KeyIndex(opts[i].key)]]

\* the order in which the loop visits the options
LoopOrder(opts) == addon_map

\* whether the loop body runs for an entry
Selected(opts, key) == Get(opts, key)

\* the fallback of the ball screw given to every option
MissingPolicyAll(key) == <<BallScrewDefault>>

\* what a selected option without a matching pattern adds (<<>>: nothing)
MissingPolicy(key) ==
    IF key = "ball_screw" THEN <<BallScrewDefault>> ELSE <<>>

AddonStep ==
    /\ pc = "addons"
    /\ key_idx <= Len(LoopOrder(options))
    /\ LET item == LoopOrder(options)[key_idx]
           m == Search(item.pat, desc.toks)
       IN
       IF Selected(options, item.key)
       THEN IF m.ok
            THEN /\ total_cny' = Add(total_cny, m.caps[1])
                 /\ logs' = Append(logs, Entry(item.name, m.caps[1], ""))
            ELSE IF MissingPolicy(item.key) # <<>>
                 THEN /\ total_cny' = Add(total_cny, MissingPolicy(item.key)[1])
                      /\ logs' = Append(logs, Entry(item.name, MissingPolicy(item.key)[1], "Default"))
                 ELSE UNCHANGED <<total_cny, logs>>
       ELSE UNCHANGED <<total_cny, logs>>
    /\ key_idx' = key_idx + 1
    /\ UNCHANGED <<desc, options, stroke_req, pc, weightVars, rateVars>>

\* return total_cny, logs
Return ==
    /\ pc = "addons"
    /\ key_idx > Len(LoopOrder(options))
    /\ pc' = "done"
    /\ UNCHANGED <<desc, options, stroke_req, key_idx, total_cny, logs, weightVars, rateVars>>

NextPricing ==
    \/ CheckDesc
    \/ BasePrice
    \/ StrokeIncrement
    \/ AddonStep
    \/ Return

SpecPricing == InitPricing /\ [][NextPricing]_vars

----------------------------------------------------------------------------
(* WeightEngine.  Weights are in units of 0.0001 kg: 4.40 kg = 44000,      *)
(* 0.0050 kg/mm = 50.  A model identifier is a str (a sequence of          *)
(* characters) or an int, as a CSV column of numbers gives.                *)

Chars(cs) == [kind |-> "str", chars |-> cs, int |-> 0]
IntId(k) == [kind |-> "int", chars |-> <<>>, int |-> k]

Digit(d) == <<"0", "1", "2", "3", "4", "5", "6", "7", "8", "9">>[d + 1]

\* str(): the decimal digits of a non-negative int, a str as it is
RECURSIVE Decimal(_)
Decimal(k) == IF k < 10 THEN <<Digit(k)>> ELSE Append(Decimal(k \div 10), Digit(k % 10))

Str(x) == IF x.kind = "int" THEN Decimal(x.int) ELSE x.chars

\* MODEL_PARAMS, in its declaration order
MODEL_PARAMS == <<
    [key |-> <<"5", "2", "0">>, base |-> 44000, factor |-> 50],
    [key |-> <<"5", "2", "1">>, base |-> 39000, factor |-> 60],
    [key |-> <<"5", "2", "4">>, base |-> 34000, factor |-> 50],
    [key |-> <<"5", "2", "3">>, base |-> 24000, factor |-> 40],
    [key |-> <<"5", "2", "5">>, base |-> 21000, factor |-> 40],
    [key |-> <<"5", "2", "2">>, base |-> 11000, factor |-> 25],
    [key |-> <<"5", "2", "6">>, base |-> 15000, factor |-> 30],
    [key |-> <<"5", "2", "8">>, base |-> 35000, factor |-> 55],
    [key |-> <<"D", "e", "f", "a", "u", "l", "t">>, base |-> 40000, factor |-> 50] >>

DefaultIndex == Len(MODEL_PARAMS)

\* k in s
Contains(k, s) ==
    \E i \in 1..(Len(s) - Len(k) + 1) : SubSeq(s, i, i + Len(k) - 1) = k

\* the loop without its break: the last matching key wins
ResolveKeyLast(s) ==
    LET hits == {i \in 1..Len(MODEL_PARAMS) : Contains(MODEL_PARAMS[i].key, s)}
    IN IF hits = {} THEN DefaultIndex ELSE Max(hits)

\* key = "Default"; for k in MODEL_PARAMS.keys(): if k in str(model_str): key = k; break
ResolveKey(s) ==
    LET hits == {i \in 1..Len(MODEL_PARAMS) : Contains(MODEL_PARAMS[i].key, s)}
    IN IF hits = {} THEN DefaultIndex ELSE Min(hits)

SingleNw(params, mm) == params.base + mm * params.factor

ModelChars == {"5", "2", "0", "M"}

RECURSIVE StringsUpTo(_)
StringsUpTo(k) ==
    IF k = 0 THEN {<<>>}
    ELSE LET shorter == StringsUpTo(k - 1)
         IN shorter \cup {Append(w, c) : w \in shorter, c \in ModelChars}

ModelArgs ==
    {Chars(w) : w \in StringsUpTo(MaxModelLen)} \cup {IntId(k) : k \in 0..MaxModelInt}

StrokeMmArgs == {0, 100, 200}

InitWeight ==
    /\ model_str \in ModelArgs
    /\ stroke_mm \in StrokeMmArgs
    /\ qty \in 1..MaxQty
    /\ weight = <<>>
    /\ IdlePricing
    /\ IdleRate

WeightCalculate ==
    /\ weight = <<>>
    /\ LET index == ResolveKey(Str(model_str))
           params == MODEL_PARAMS[index]
           single_nw == SingleNw(params, stroke_mm)
           total_nw == single_nw * qty
       IN weight' = <<[key |-> index, single_nw |-> single_nw, total_nw |-> total_nw]>>
    /\ UNCHANGED <<model_str, stroke_mm, qty, pricingVars, rateVars>>

NextWeight == WeightCalculate

SpecWeight == InitWeight /\ [][NextWeight]_vars

----------------------------------------------------------------------------
(* get_exchange_rate under @st.cache_data(ttl=3600).  A multiplier is in   *)
(* thousandths (0.138 = 138); what the service sends under the target's    *)
(* key may be something else than a number.  Time is in seconds.           *)

Number(m) == [num |-> TRUE, milli |-> m]
NotANumber == [num |-> FALSE, milli |-> 0]

\* the currencies the sidebar offers
Currencies == {"USD", "EUR", "CNY", "GBP", "AUD"}

ttl == 3600

\* rates = {"USD": 0.138, "EUR": 0.127, "GBP": 0.109}; rates.get(to_curr, 0.14)
FallbackRate(to_curr) ==
    CASE to_curr = "USD" -> Number(138)
      [] to_curr = "EUR" -> Number(127)
      [] to_curr = "GBP" -> Number(109)
      [] OTHER -> Number(140)

BaseRate == Number(1000)

\* what requests.get(url, timeout=2).json() and data['rates'][to_curr] can do
LiveRates == {Number(139), Number(141)}
Failures == {"timeout", "transport", "not_json", "no_rates", "no_target"}
Responses ==
    {[kind |-> k, value |-> NotANumber] : k \in Failures}
    \cup {[kind |-> "value", value |-> v] : v \in LiveRates \cup {NotANumber}}

\* the body without its shortcut for the base currency
BodyAlwaysAsks(to_curr, resp) ==
    IF resp.kind = "value"
    THEN [rate |-> resp.value, fetched |-> TRUE, origin |-> "live"]
    ELSE [rate |-> FallbackRate(to_curr), fetched |-> TRUE, origin |-> "fallback"]

\* the body of get_exchange_rate: the value returned and whether the service was asked
Body(to_curr, resp) ==
    IF to_curr = "CNY" THEN [rate |-> BaseRate, fetched |-> FALSE, origin |-> "base"]
    ELSE IF resp.kind = "value"
         THEN [rate |-> resp.value, fetched |-> TRUE, origin |-> "live"]
         ELSE [rate |-> FallbackRate(to_curr), fetched |-> TRUE, origin |-> "fallback"]

\* the key st.cache_data stores a call under
CacheKey(to_curr) == to_curr

\* a store that serves nothing again
FreshNever(entry, t) == FALSE

\* an entry written at time t is served before t + ttl
Fresh(entry, t) == t < entry.time + ttl

Cached(c, t) == cache[CacheKey(c)] # <<>> /\ Fresh(cache[CacheKey(c)][1], t)

\* a store that keeps live rates only
StoreLiveOnly(r, t) == IF r.origin = "fallback" THEN <<>> ELSE <<[rate |-> r.rate, time |-> t]>>

\* what st.cache_data keeps of a value the function returned at time t
Store(r, t) == <<[rate |-> r.rate, time |-> t]>>

InitRate ==
    /\ now = 0
    /\ cache = [c \in Currencies |-> <<>>]
    /\ lastCall = <<>>
    /\ history = [c \in Currencies |-> <<>>]
    /\ IdlePricing
    /\ IdleWeight

GetExchangeRate(to_curr) ==
    IF Cached(to_curr, now)
    THEN /\ lastCall' = <<[curr |-> to_curr, rate |-> cache[CacheKey(to_curr)][1].rate,
                           fetched |-> FALSE, resp |-> "cache"]>>
         /\ UNCHANGED <<now, cache, history>>
    ELSE \E resp \in Responses :
           LET r == Body(to_curr, resp) IN
           /\ cache' = [cache EXCEPT ![CacheKey(to_curr)] = Store(r, now)]
           /\ history' = [history EXCEPT ![to_curr] =
                            <<[rate |-> r.rate, time |-> now, origin |-> r.origin]>>]
           /\ lastCall' = <<[curr |-> to_curr, rate |-> r.rate, fetched |-> r.fetched,
                             resp |-> IF r.fetched THEN resp.kind ELSE "none"]>>
           /\ now' = now

Call ==
    /\ \E to_curr \in Currencies : GetExchangeRate(to_curr)
    /\ UNCHANGED <<pricingVars, weightVars>>

\* time passes: entries that reach their ttl are gone
Tick ==
    /\ now + TickStep <= MaxTime
    /\ now' = now + TickStep
    /\ cache' = [k \in DOMAIN cache |->
                   IF cache[k] # <<>> /\ Fresh(cache[k][1], now') THEN cache[k] ELSE <<>>]
    /\ history' = [k \in DOMAIN history |->
                     IF history[k] # <<>> /\ now' - history[k][1].time < ttl
                     THEN history[k] ELSE <<>>]
    /\ lastCall' = <<>>
    /\ UNCHANGED <<pricingVars, weightVars>>

NextRate == Call \/ Tick

SpecRate == InitRate /\ [][NextRate]_vars

----------------------------------------------------------------------------
(* Properties of PricingEngine.calculate (checked under SpecPricing) *)

StrokeMatch == Search(StrokePattern, desc.toks)
BaseMatch == Search(BasePattern, desc.toks)

\* the entries of the log with a given name
Named(name) == {i \in 1..Len(logs) : logs[i].name = name}

\* n is the ceiling of a / b, for b >= 1
IsCeiling(n, a, b) == n * b >= a /\ (n - 1) * b < a

\* amount is ceil(a / inc_len) * inc_cost
IsSurcharge(amount, a, inc_len, inc_cost) ==
    IF inc_cost = 0 THEN amount = 0
    ELSE amount % inc_cost = 0 /\ IsCeiling(amount \div inc_cost, a, inc_len)

\* the stroke statement has run and calculate has not left through the type check
AfterStroke == desc.str /\ pc \in {"addons", "done"}

\* C1: with a stroke pattern of upper bound B and an increment length >= 1, a
\* requested stroke <= B adds nothing and logs no stroke entry, a requested
\* stroke > B adds ceil((stroke - B) / inc_len) * inc_cost, logged once, and no
\* smaller requested stroke costs more (seen right after the stroke statement
\* and at the return).
C1_StrokeSurcharge ==
    (AfterStroke /\ (key_idx = 1 \/ pc = "done")) =>
      LET m == StrokeMatch
          B == m.caps[2]
          inc_len == m.caps[3]
          inc_cost == m.caps[4]
          base == IF BaseMatch.ok THEN BaseMatch.caps[1] ELSE 0
      IN (m.ok /\ inc_len >= 1) =>
           IF stroke_req <= B
           THEN /\ Named("Stroke") = {}
                /\ (key_idx = 1) => total_cny = base
           ELSE \E i \in 1..Len(logs) :
                  /\ Named("Stroke") = {i}
                  /\ IsSurcharge(logs[i].amount, stroke_req - B, inc_len, inc_cost)
                  /\ (key_idx = 1) => total_cny = base + logs[i].amount
                  /\ (key_idx = 1) =>
                        \A smaller \in StrokeArgs :
                           (B < smaller /\ smaller <= stroke_req) =>
                              /\ StrokeCost(B, inc_len, inc_cost, smaller) <= logs[i].amount
                              /\ StrokeCost(B, inc_len, inc_cost, smaller) >= 0

\* a stroke that is no whole number of increments above B: the ceiling rounds up
C1_Witness ==
    /\ AfterStroke /\ StrokeMatch.ok /\ StrokeMatch.caps[3] = 2
    /\ stroke_req = 6
    /\ \E i \in 1..Len(logs) : logs[i].name = "Stroke" /\ logs[i].amount = 10

\* C2: a stroke pattern with an increment length of zero never makes
\* calculate raise: the call returns a total and a log.
C2_ZeroIncrementGuarded ==
    (desc.str /\ StrokeMatch.ok /\ StrokeMatch.caps[3] = 0) => pc # "raised"

\* the options mapping selects key
IsSelected(key) == \E i \in 1..Len(options) : options[i].key = key /\ options[i].flag

\* C6: in the step of the loop for one option: selected, pattern absent and
\* ball_screw adds exactly 280 and logs one entry marked Default; selected,
\* pattern absent and any other option adds and logs nothing; not selected
\* adds and logs nothing, pattern or not.
C6_MissingPatternPolicy ==
    [][(pc = "addons" /\ key_idx' = key_idx + 1) =>
         LET item == addon_map[key_idx]
             present == Search(item.pat, desc.toks).ok
         IN /\ (IsSelected(item.key) /\ ~present /\ item.key = "ball_screw") =>
                  /\ total_cny' = total_cny + 280
                  /\ logs' = Append(logs, [name |-> item.name, amount |-> 280, note |-> "Default"])
            /\ (IsSelected(item.key) /\ ~present /\ item.key # "ball_screw") =>
                  /\ total_cny' = total_cny
                  /\ logs' = logs
            /\ ~IsSelected(item.key) =>
                  /\ total_cny' = total_cny
                  /\ logs' = logs
      ]_vars

\* the ball screw and another option selected, neither priced: one Default entry
C6_Witness ==
    /\ pc = "done" /\ desc.str
    /\ IsSelected("ball_screw") /\ IsSelected("fisheye")
    /\ ~Search(addon_map[1].pat, desc.toks).ok /\ ~Search(addon_map[2].pat, desc.toks).ok
    /\ BaseMatch.ok
    /\ logs = <<Entry("Base", 10, ""), Entry("Ball Screw", 280, "Default")>>
    /\ total_cny = 290

\* the place of a log entry: base, stroke, then the options as declared
Rank(name) ==
    CASE name = "Base" -> 0
      [] name = "Stroke" -> 1
      [] OTHER -> 1 + (CHOOSE i \in 1..Len(addon_map) : addon_map[i].name = name)

\* C7: the log is ordered base, stroke, options in declaration order, each at
\* most once, whatever the order of the keys in the options mapping.
C7_LogOrder ==
    desc.str =>
        /\ \A i \in 1..Len(logs) :
              logs[i].name \in {"Base", "Stroke"} \cup {addon_map[k].name : k \in 1..Len(addon_map)}
        /\ \A i, j \in 1..Len(logs) : i < j => Rank(logs[i].name) < Rank(logs[j].name)
        /\ (pc = "done") =>
              \A k \in 1..Len(addon_map) :
                 (IsSelected(addon_map[k].key) /\ Search(addon_map[k].pat, desc.toks).ok)
                    => Named(addon_map[k].name) # {}

\* a mapping whose keys come in the opposite order, and a full log
C7_Witness ==
    /\ pc = "done"
    /\ Len(options) = 2
    /\ KeyIndex(options[1].key) > KeyIndex(options[2].key)
    /\ Len(logs) = 4
    /\ logs[1].name = "Base" /\ logs[2].name = "Stroke"
    /\ logs[3].name = addon_map[KeyIndex(options[2].key)].name
    /\ logs[4].name = addon_map[KeyIndex(options[1].key)].name

RECURSIVE SumAmounts(_)
SumAmounts(es) == IF es = <<>> THEN 0 ELSE Head(es).amount + SumAmounts(Tail(es))

ExampleDesc == Text(BaseSeg(1000) \o <<Lit("space")>> \o StrokeSeg(100, 500, 50, 20))

\* C8: at every step the total is non-negative and the sum of the amounts
\* logged so far; without a base marker no base amount is in it (seen after
\* the base statement and at the return); the example
\* (base 1000, range to 500, 50 mm for 20, stroke 600, no option) gives 1040.
C8_AdditiveTotal ==
    /\ total_cny >= 0
    /\ total_cny = SumAmounts(logs)
    /\ \A i \in 1..Len(logs) : logs[i].amount >= 0
    /\ (desc.str /\ pc \in {"stroke", "done"}) =>
          LET m == BaseMatch IN
          IF m.ok
          THEN \E i \in 1..Len(logs) : Named("Base") = {i} /\ logs[i].amount = m.caps[1]
          ELSE Named("Base") = {}
    /\ (pc = "done" /\ desc = ExampleDesc /\ stroke_req = 600
          /\ \A k \in AddonKeys : ~IsSelected(k)) => total_cny = 1040

C8_Witness ==
    /\ pc = "done" /\ desc = ExampleDesc /\ stroke_req = 600
    /\ \A k \in AddonKeys : ~IsSelected(k)
    /\ total_cny = 1040
    /\ logs = <<Entry("Base", 1000, ""), Entry("Stroke", 40, "")>>

----------------------------------------------------------------------------
(* Properties of WeightEngine.calculate (checked under SpecWeight) *)

\* C9: the family is the first key of MODEL_PARAMS, in declaration order,
\* that is a substring of the identifier, Default when none is; single is
\* base + stroke * factor and total is single * quantity of that family;
\* ("524", 200, 3) gives 4.40 kg and 13.20 kg.
C9_FirstDeclaredKey ==
    weight # <<>> =>
      LET id == Str(model_str)
          w == weight[1]
          p == MODEL_PARAMS[w.key]
      IN /\ w.key \in 1..Len(MODEL_PARAMS)
         /\ \A j \in 1..(w.key - 1) : ~Contains(MODEL_PARAMS[j].key, id)
         /\ Contains(p.key, id) \/ w.key = DefaultIndex
         /\ w.single_nw = p.base + stroke_mm * p.factor
         /\ w.total_nw = w.single_nw * qty
         /\ (id = <<"5", "2", "4">> /\ stroke_mm = 200 /\ qty = 3) =>
               (w.single_nw = 44000 /\ w.total_nw = 132000)

\* '52520' holds 525 first and 520 after it: 520, declared first, is the family
C9_Witness ==
    /\ weight # <<>>
    /\ Str(model_str) = <<"5", "2", "5", "2", "0">>
    /\ weight[1].key = 1
    /\ stroke_mm = 100 /\ qty = 2
    /\ weight[1].single_nw = 49000 /\ weight[1].total_nw = 98000

----------------------------------------------------------------------------
(* Properties of get_exchange_rate (checked under SpecRate) *)

IsFailure(kind) == kind \in Failures \/ kind = "value_not_a_number"

\* what the service did in the last call, a value that is no number set apart
Outcome(call) ==
    IF call.resp = "value" /\ ~call.rate.num THEN "value_not_a_number" ELSE call.resp

\* C3: every call returns a number; when the lookup failed (timeout, transport
\* error, payload that is no JSON, rate missing or not a number) the number is
\* the fallback of the currency: 0.138, 0.127, 0.109, or 0.14 for the others.
C3_AlwaysNumeric ==
    lastCall # <<>> =>
      LET call == lastCall[1] IN
      /\ call.rate.num
      /\ IsFailure(Outcome(call)) =>
            call.rate = (CASE call.curr = "USD" -> Number(138)
                           [] call.curr = "EUR" -> Number(127)
                           [] call.curr = "GBP" -> Number(109)
                           [] OTHER -> Number(140))

\* the step is a call, for the currency of lastCall'
IsCall == lastCall' # <<>>

\* C4: a call for a currency whose function body last ran less than 3600 s ago
\* asks the service nothing and returns the value of that run; a call for a
\* currency other than CNY with no run in the last 3600 s asks the service,
\* whatever is stored for the other currencies.
C4_CachedWithinWindow ==
    [][IsCall =>
         LET call == lastCall'[1]
             last == history[call.curr]
         IN /\ (last # <<>> /\ now - last[1].time < 3600) =>
                  /\ ~call.fetched
                  /\ call.rate = last[1].rate
                  /\ cache' = cache
            /\ (last = <<>> /\ call.curr # "CNY") =>
                  /\ call.fetched
                  /\ cache'[call.curr] # <<>>
                  /\ \A c \in Currencies \ {call.curr} : cache'[c] = cache[c]
      ]_vars

\* a second call, later in the window, served from the store while another
\* currency holds another value
C4_Witness ==
    /\ lastCall # <<>>
    /\ lastCall[1].curr = "USD" /\ lastCall[1].resp = "cache"
    /\ lastCall[1].rate = Number(141)
    /\ cache["USD"] # <<>> /\ cache["USD"][1].time < now
    /\ cache["EUR"] # <<>> /\ cache["EUR"][1].rate = Number(139)

\* C5: a call for CNY returns exactly 1.0 and asks the service nothing,
\* whatever the store holds and whatever the service would answer.
C5_BaseCurrency ==
    (lastCall # <<>> /\ lastCall[1].curr = "CNY") =>
        /\ lastCall[1].rate = Number(1000)
        /\ ~lastCall[1].fetched

C5_Witness ==
    /\ lastCall # <<>> /\ lastCall[1].curr = "CNY"
    /\ lastCall[1].rate = Number(1000)
    /\ lastCall[1].resp = "none"
    /\ cache["USD"] # <<>> /\ ~cache["USD"][1].rate.num
    /\ now > 0

\* C10: once a lookup failed, every call for that currency in the next 3600 s
\* returns the same fallback value without a new lookup, whatever the service
\* would answer now; no live rate comes back in that window.
C10_FallbackCached ==
    [][IsCall =>
         LET call == lastCall'[1]
             last == history[call.curr]
         IN (last # <<>> /\ last[1].origin = "fallback" /\ now - last[1].time < 3600) =>
               /\ call.resp = "cache"
               /\ call.rate = FallbackRate(call.curr)
               /\ history'[call.curr] = last
      ]_vars

\* a fallback served again later in the window
C10_Witness ==
    /\ lastCall # <<>>
    /\ lastCall[1].curr = "AUD" /\ lastCall[1].resp = "cache"
    /\ lastCall[1].rate = Number(140)
    /\ history["AUD"] # <<>> /\ history["AUD"][1].origin = "fallback"
    /\ history["AUD"][1].time < now

====
